---- MODULE Spec2Model ----
(***************************************************************************)
(* Model of the ECE346 Lab1 trajectory planner node.                       *)
(*                                                                         *)
(*   traj_planner.py  TrajectoryPlanner: the control thread, the two       *)
(*                    planning threads and the ROS callbacks, exchanging   *)
(*                    data through four RealtimeBuffer channels.           *)
(*   ILQR/ilqr.py     ILQR: plan, backward_pass, forward_pass.             *)
(*                                                                         *)
(* RealtimeBuffer and Policy live in utils/, which is not part of the      *)
(* sources at hand; they are modelled from sections 4.4 and 4.5 of the     *)
(* specification.                                                          *)
(*                                                                         *)
(* Python values: None is the empty tuple, any other value v is <<v>>.     *)
(* Time is counted in clock ticks; a thread that dies of an uncaught       *)
(* exception has pc "crashed".                                             *)
(***************************************************************************)
EXTENDS Integers, Sequences, FiniteSets, TLC

\* ------------------------------------------------------------------ bounds
MaxTime == 1
MaxTicks == 2
MaxReplanDt == 1
MaxLatency == 1
\* reconfigure requests the node receives in a run
MaxReconfigures == 1

\* ------------------------------------------------------- program constants
\* len(self.goal_path): goal_path = [1, 3, 9], one leg of total_path per goal
NumGoals == 3
\* the control loop's safe default command
DefaultAccel == -5
DefaultSteer == 0

\* ---------------------------------------------------------- Python values
None == <<>>
Some(v) == <<v>>
IsNone(x) == x = <<>>
Val(x) == x[1]

\* --------------------------------------------------- RealtimeBuffer (4.5)
EmptyBuffer == [data |-> None, new_data_available |-> FALSE]

\* write(value): replaces the stored value and sets the new-data flag
writeFromNonRT(b, v) == [data |-> Some(v), new_data_available |-> TRUE]

\* read(): the stored value; the flag is cleared, the value stays until it is
\* superseded or the channel is reset
readFromRT(b) == b.data
afterRead(b) == [b EXCEPT !.new_data_available = FALSE]

\* reset(): clears stored value and flag
reset(b) == EmptyBuffer

\* ------------------------------------------------------------ Policy (4.4)
Policy(t0, dt, T) == [t0 |-> t0, dt |-> dt, T |-> T]

\* get_policy(t): the entry at floor((t - t0)/dt), None outside [t0, t0+T*dt)
get_policy(p, t) ==
    IF t >= p.t0 /\ t < p.t0 + p.T * p.dt
    THEN Some((t - p.t0) \div p.dt)
    ELSE None

\* get_policy_by_state(x): the entry nearest to x; x = None cannot be indexed
get_policy_by_state(p, x) == IF IsNone(x) THEN "TypeError" ELSE "entry"

VARIABLES
    \* configuration read at start-up (read_parameters)
    receding_horizon, simulation, replan_dt,
    \* TrajectoryPlanner fields
    planner_ready, latency, update_lock,
    plan_state_buffer, control_state_buffer, policy_buffer, path_buffer,
    \* ILQR fields
    ref_path,
    \* the constructor's position, the clock
    mainpc, now,
    \* control_thread locals
    cpc, policy, t_act, state_cur, u_queue, prev_u, prev_state, dt, ticks,
    servo_msg, published,
    \* policy_planning_thread locals
    ppc, pstate,
    \* receding_horizon_planning_thread locals
    rpc, index, t_last_replan, current_state, initial_controls,
    \* reconfigure_callback: the value of the call in progress, calls so far
    cfgpc,
    \* bookkeeping for the properties
    planActive, afterStop, stopInFlight, lastWrite, misread,
    \* ILQR.backward_pass: its arguments, position and locals
    bp_in, bpc, bp_t, lam, Kt,
    \* ILQR.plan called on its own: its arguments, its result
    plan_in, plan_out,
    \* TrajectoryPlanner.static_obstacle_dict, ILQR.obstacle_list, and whether
    \* an obstacle message arrived during the plan call in progress
    static_obstacle_dict, obstacle_list, obsDuringCall,
    \* compute_control and ILQR.forward_pass called on their own: arguments
    \* and result
    cc_in, cc_out, fp_in, fp_out

nodeVars == <<receding_horizon, simulation, replan_dt, planner_ready, latency,
              update_lock, plan_state_buffer, control_state_buffer,
              policy_buffer, path_buffer, ref_path, mainpc, now>>
ctlVars == <<cpc, policy, t_act, state_cur, u_queue, prev_u, prev_state, dt,
             ticks, servo_msg, published>>
planVars == <<ppc, pstate, rpc, index, t_last_replan, current_state,
              initial_controls>>
auxVars == <<cfgpc, planActive, afterStop, stopInFlight, lastWrite, misread>>

bpVars == <<bp_in, bpc, bp_t, lam, Kt>>

\* ILQR.plan run as a function
planFnVars == <<plan_in, plan_out>>

\* compute_control and ILQR.forward_pass run as functions
fnVars == <<cc_in, cc_out, fp_in, fp_out>>

\* the obstacles
obsVars == <<static_obstacle_dict, obstacle_list, obsDuringCall>>

vars == <<nodeVars, ctlVars, planVars, auxVars, bpVars, planFnVars, fnVars, obsVars>>

Channels == {"plan_state_buffer", "control_state_buffer", "policy_buffer",
             "path_buffer"}

\* ------------------------------------------------------------- ILQR.plan
Result(kind, status, keys, K) ==
    [kind |-> kind, status |-> status, keys |-> keys, K_closed_loop |-> K]

\* plan(init_state, controls): the body.  Jsmall: the cost of the rolled-out
\* nominal trajectory lies inside (-tol, tol), so the while loop is entered and
\* its first statement reads the undefined names alpha and epsilon.
plan(ref, Jsmall) ==
    IF IsNone(ref) THEN Result("return", Some(-1), FALSE, None)
    ELSE IF Jsmall THEN Result("NameError", None, FALSE, None)
    ELSE Result("return", None, TRUE, None)

\* the parameters plan() accepts
PlanParameters == {"init_state", "controls"}

\* a plan that swallows any keyword and reports success with gains
call_plan_success(kwargs, ref, Jsmall) == Result("return", Some(0), TRUE, Some("K"))

\* a call of plan with the given keyword arguments: a keyword that is no
\* parameter is a TypeError before the body runs
call_plan(kwargs, ref, Jsmall) ==
    IF kwargs \subseteq PlanParameters THEN plan(ref, Jsmall)
    ELSE Result("TypeError", None, FALSE, None)

\* self.planner.T and self.planner.dt, in steps and clock ticks
PlannerT == 2
PlannerDt == 1

\* ------------------------------------------------- bookkeeping operators
NoteWrite(lw, c, v) == [lw EXCEPT ![c] = Some(v)]
NoteClear(lw, c) == [lw EXCEPT ![c] = None]
\* a read of channel c, holding b, after want was written last: the read is
\* noted when new data was flagged and the value read is not the one written
\* last, or the flag stays set
NoteRead(mr, c, b, want) ==
    IF b.new_data_available
       /\ (readFromRT(b) # want \/ afterRead(b).new_data_available)
    THEN mr \cup {c} ELSE mr
OnPolicyRead(as, v) ==
    IF as = "armed" THEN (IF IsNone(v) THEN "none" ELSE "value") ELSE as

\* the circular path warm_up builds; the legs of total_path are 0, 1, 2
WarmUpPath == 0 - 1

\* ------------------------------------------------------------------ Init
Positions == 0 .. NumGoals
LatencyValues == {0 - MaxLatency, MaxLatency}

\* ------------------------------------------------------------ obstacles
MaxObstacleId == 1
MaxMarkers == 2
ObstacleIds == 1 .. MaxObstacleId
Vertices == {"box", "wedge"}
\* the obstacle warm_up builds and passes to update_obstacles
WarmUpObstacle == "warm_up"
\* self.static_obstacle_dict = {}: no id has an entry
EmptyDict == [id \in ObstacleIds |-> None]
\* a MarkerArray: its markers as (id, vertices) pairs, in order
Markers == [id : ObstacleIds, vert : Vertices]
MarkerArrays == UNION {[1 .. n -> Markers] : n \in 1 .. MaxMarkers}
\* for marker in marker_msg.markers: self.static_obstacle_dict[id] = vert
RECURSIVE store_markers(_, _)
store_markers(dict, markers) ==
    IF markers = <<>> THEN dict
    ELSE store_markers([dict EXCEPT ![Head(markers).id] = Some(Head(markers).vert)],
                       Tail(markers))
\* a callback that hands the stored vertices on to planner.update_obstacles
RECURSIVE dict_values(_, _)
dict_values(dict, id) ==
    IF id > MaxObstacleId THEN <<>>
    ELSE (IF IsNone(dict[id]) THEN <<>> ELSE <<Val(dict[id])>>)
         \o dict_values(dict, id + 1)
obstacles_updated(list, dict) == dict_values(dict, 1)
\* the planner's obstacle_list after obstacle_callback: the callback does not
\* touch the planner
obstacles_after_callback(list, dict) == list

Init ==
    /\ static_obstacle_dict = EmptyDict
    /\ obstacle_list = <<>>
    /\ obsDuringCall = FALSE
    /\ receding_horizon \in BOOLEAN
    /\ simulation \in BOOLEAN
    /\ replan_dt \in 1 .. MaxReplanDt
    /\ planner_ready = TRUE
    /\ latency = 0
    /\ update_lock = "free"
    /\ plan_state_buffer = EmptyBuffer
    /\ control_state_buffer = EmptyBuffer
    /\ policy_buffer = EmptyBuffer
    /\ path_buffer = EmptyBuffer
    /\ ref_path = None
    /\ mainpc = "warm_up"
    /\ now = 0
    /\ cpc = "off"
    /\ policy = None
    /\ t_act = 0
    /\ state_cur = None
    /\ u_queue = <<>>
    /\ prev_u = [accel |-> 0, steer |-> 0, t |-> 0]
    /\ prev_state = None
    /\ dt = None
    /\ ticks = 0
    /\ servo_msg = None
    /\ published = 0
    /\ ppc = "off"
    /\ pstate = [state |-> None, n |-> 0]
    /\ rpc = "off"
    /\ index = 0
    /\ t_last_replan = 0
    /\ current_state = None
    /\ initial_controls = None
    /\ cfgpc = [latency |-> None, calls |-> 0]
    /\ planActive = 0
    /\ afterStop = "idle"
    /\ stopInFlight = FALSE
    /\ lastWrite = [c \in Channels |-> None]
    /\ misread = {}
    /\ bp_in = None
    /\ bpc = "off"
    /\ bp_t = 0
    /\ lam = 0
    /\ Kt = None
    /\ plan_in = None
    /\ plan_out = None
    /\ cc_in = None /\ cc_out = None
    /\ fp_in = None /\ fp_out = None

\* ------------------------------------------------- construction (__init__)
\* ILQR.__init__ -> warm_up: a reference path is set and plan(x_init) called
WarmUpCall ==
    /\ UNCHANGED <<bpVars, planFnVars, fnVars, static_obstacle_dict, obsDuringCall>>
    /\ mainpc = "warm_up"
    /\ mainpc' = "warming"
    /\ ref_path' = Some(WarmUpPath)
    /\ obstacle_list' = <<WarmUpObstacle>>
    /\ planActive' = planActive + 1
    /\ UNCHANGED <<receding_horizon, simulation, replan_dt, planner_ready,
                   latency, update_lock, plan_state_buffer,
                   control_state_buffer, policy_buffer, path_buffer, now>>
    /\ UNCHANGED <<ctlVars, planVars>>
    /\ UNCHANGED <<cfgpc, afterStop, stopInFlight, lastWrite, misread>>

\* plan(x_init) ends: the constructor goes on, or the NameError leaves it
WarmUpReturn ==
    /\ UNCHANGED <<bpVars, planFnVars, fnVars, static_obstacle_dict, obsDuringCall>>
    /\ mainpc = "warming"
    /\ \E Jsmall \in BOOLEAN :
         LET r == call_plan({}, ref_path, Jsmall) IN
         IF r.kind = "return"
         THEN mainpc' = "setup" /\ ref_path' = None /\ obstacle_list' = <<>>
         ELSE mainpc' = "failed" /\ UNCHANGED <<ref_path, obstacle_list>>
    /\ planActive' = planActive - 1
    /\ UNCHANGED <<receding_horizon, simulation, replan_dt, planner_ready,
                   latency, update_lock, plan_state_buffer,
                   control_state_buffer, policy_buffer, path_buffer, now>>
    /\ UNCHANGED <<ctlVars, planVars>>
    /\ UNCHANGED <<cfgpc, afterStop, stopInFlight, lastWrite, misread>>

\* the planning threads __init__ starts
PlanningThreads_both(receding) == {"policy", "receding"}
PlanningThreads(receding) == IF ~receding THEN {"policy"} ELSE {"receding"}

\* obstacle_callback(marker_msg), one MarkerArray
obstacle_callback ==
    /\ mainpc = "running"
    /\ \E msg \in MarkerArrays :
         /\ static_obstacle_dict' = store_markers(static_obstacle_dict, msg)
         /\ obstacle_list' = obstacles_after_callback(obstacle_list,
                                                      static_obstacle_dict')
    /\ obsDuringCall' = (obsDuringCall \/ ppc = "p_ret" \/ rpc = "r_ret")
    /\ UNCHANGED <<nodeVars, ctlVars, planVars, auxVars, bpVars, planFnVars, fnVars>>

\* setup_path writes the first leg; the threads are started
StartNode ==
    /\ UNCHANGED <<bpVars, planFnVars, fnVars, obsVars>>
    /\ mainpc = "setup"
    /\ mainpc' = "running"
    /\ path_buffer' = writeFromNonRT(path_buffer, 0)
    /\ lastWrite' = NoteWrite(lastWrite, "path_buffer", 0)
    /\ cpc' = "c_read"
    /\ ppc' = IF "policy" \in PlanningThreads(receding_horizon)
              THEN "p_wait" ELSE "off"
    /\ rpc' = IF "receding" \in PlanningThreads(receding_horizon)
              THEN "r_loop" ELSE "off"
    /\ UNCHANGED <<receding_horizon, simulation, replan_dt, planner_ready,
                   latency, update_lock, plan_state_buffer,
                   control_state_buffer, policy_buffer, ref_path, now>>
    /\ UNCHANGED <<policy, t_act, state_cur, u_queue, prev_u, prev_state, dt,
                   ticks, servo_msg, published>>
    /\ UNCHANGED <<pstate, index, t_last_replan, current_state,
                   initial_controls>>
    /\ UNCHANGED <<cfgpc, planActive, afterStop, stopInFlight, misread>>

\* --------------------------------------------------------------- callbacks
\* a planning thread is at or inside its call of plan
InCycle == ppc \in {"p_call", "p_ret"} \/ rpc \in {"r_call", "r_ret"}

start_planning_cb ==
    /\ UNCHANGED <<bpVars, planFnVars, fnVars, obsVars>>
    /\ mainpc = "running"
    /\ planner_ready' = TRUE
    /\ stopInFlight' = FALSE
    /\ afterStop' = IF afterStop = "armed" THEN "idle" ELSE afterStop
    /\ UNCHANGED <<receding_horizon, simulation, replan_dt, latency,
                   update_lock, plan_state_buffer, control_state_buffer,
                   policy_buffer, path_buffer, ref_path, mainpc, now>>
    /\ UNCHANGED <<ctlVars, planVars>>
    /\ UNCHANGED <<cfgpc, planActive, lastWrite, misread>>

\* the policy channel after stop_planning_cb
stop_policy_buffer(b) == reset(b)

stop_planning_cb ==
    /\ UNCHANGED <<bpVars, planFnVars, fnVars, obsVars>>
    /\ mainpc = "running"
    /\ planner_ready' = FALSE
    /\ policy_buffer' = stop_policy_buffer(policy_buffer)
    /\ afterStop' = "armed"
    /\ stopInFlight' = (stopInFlight \/ InCycle)
    /\ lastWrite' = NoteClear(lastWrite, "policy_buffer")
    /\ UNCHANGED <<receding_horizon, simulation, replan_dt, latency,
                   update_lock, plan_state_buffer, control_state_buffer,
                   path_buffer, ref_path, mainpc, now>>
    /\ UNCHANGED <<ctlVars, planVars>>
    /\ UNCHANGED <<cfgpc, planActive, misread>>

\* reconfigure_callback: acquire update_lock ...
reconfigure_acquire ==
    /\ UNCHANGED <<bpVars, planFnVars, fnVars, obsVars>>
    /\ mainpc = "running"
    /\ IsNone(cfgpc.latency)
    /\ cfgpc.calls < MaxReconfigures
    /\ update_lock = "free"
    /\ update_lock' = "reconfigure"
    /\ \E v \in LatencyValues :
         cfgpc' = [latency |-> Some(v), calls |-> cfgpc.calls + 1]
    /\ UNCHANGED <<receding_horizon, simulation, replan_dt, planner_ready,
                   latency, plan_state_buffer, control_state_buffer,
                   policy_buffer, path_buffer, ref_path, mainpc, now>>
    /\ UNCHANGED <<ctlVars, planVars>>
    /\ UNCHANGED <<planActive, afterStop, stopInFlight, lastWrite, misread>>

\* update_lock after reconfigure_callback's last statement
reconfigure_never_releases(lock) == lock
reconfigure_release(lock) == "free"

\* ... set self.latency (a negative value only logs a warning), release
reconfigure_callback ==
    /\ UNCHANGED <<bpVars, planFnVars, fnVars, obsVars>>
    /\ ~IsNone(cfgpc.latency)
    /\ latency' = Val(cfgpc.latency)
    /\ update_lock' = reconfigure_release(update_lock)
    /\ cfgpc' = [cfgpc EXCEPT !.latency = None]
    /\ UNCHANGED <<receding_horizon, simulation, replan_dt, planner_ready,
                   plan_state_buffer, control_state_buffer, policy_buffer,
                   path_buffer, ref_path, mainpc, now>>
    /\ UNCHANGED <<ctlVars, planVars>>
    /\ UNCHANGED <<planActive, afterStop, stopInFlight, lastWrite, misread>>

\* the control-state channel after odometry_callback(msg)
odometry_keeps_first(b, msg) ==
    IF b.new_data_available THEN b ELSE writeFromNonRT(b, msg)
odometry_buffer(b, msg) == writeFromNonRT(b, msg)

odometry_callback ==
    /\ UNCHANGED <<bpVars, planFnVars, fnVars, obsVars>>
    /\ mainpc = "running"
    /\ \E p \in Positions :
         LET msg == [stamp |-> now, pos |-> p] IN
         /\ control_state_buffer' = odometry_buffer(control_state_buffer, msg)
         /\ lastWrite' = NoteWrite(lastWrite, "control_state_buffer", msg)
    /\ UNCHANGED <<receding_horizon, simulation, replan_dt, planner_ready,
                   latency, update_lock, plan_state_buffer, policy_buffer,
                   path_buffer, ref_path, mainpc, now>>
    /\ UNCHANGED <<ctlVars, planVars>>
    /\ UNCHANGED <<cfgpc, planActive, afterStop, stopInFlight, misread>>

\* rospy's clock advances
Tick ==
    /\ UNCHANGED <<bpVars, planFnVars, fnVars, obsVars>>
    /\ mainpc = "running"
    /\ now < MaxTime
    /\ now' = now + 1
    /\ UNCHANGED <<receding_horizon, simulation, replan_dt, planner_ready,
                   latency, update_lock, plan_state_buffer,
                   control_state_buffer, policy_buffer, path_buffer, ref_path,
                   mainpc>>
    /\ UNCHANGED <<ctlVars, planVars, auxVars>>

\* ---------------------------------------------------------- control_thread
\* actuator limit on the steering angle, in hundredths of a radian
SteerLimit == 37
SteerRates == {0 - 100, 0, 100}

Command(a, s, t) == [accel |-> a, steer |-> s, t |-> t]
Min(a, b) == IF a < b THEN a ELSE b
Max(a, b) == IF a > b THEN a ELSE b

\* a command that takes the steering angle as computed
steer_unclipped(st) == st
\* line 409: max(-0.37, min(0.37, .))
clip_steer(st) == Max(0 - SteerLimit, Min(SteerLimit, st))

\* dyn_step(x, u, dt): integrate over dt; the steering entry becomes u's
dyn_step(x, u, d) == [t |-> x.t + d, steer |-> u.steer]

\* while not u_queue.empty() and u_queue.queue[0][-1] < t_slam: u = get()
RECURSIVE Purge(_, _, _)
Purge(q, t_slam, u) ==
    IF q # <<>> /\ Head(q).t < t_slam
    THEN Purge(Tail(q), t_slam, Head(q))
    ELSE [queue |-> q, u |-> u]

\* for i in range(qsize): dt = u_next[-1] - u[-1]; dyn_step; u = u_next
RECURSIVE Replay(_, _, _, _)
Replay(q, x, u, d) ==
    IF q = <<>> THEN [state |-> x, u |-> u, dt |-> d]
    ELSE Replay(Tail(q), dyn_step(x, u, Head(q).t - u.t), Head(q),
                Some(Head(q).t - u.t))

\* lines 340-344: default command, read the policy channel
ControlRead ==
    /\ UNCHANGED <<bpVars, planFnVars, fnVars, obsVars>>
    /\ cpc = "c_read"
    /\ ticks < MaxTicks
    /\ ticks' = ticks + 1
    /\ policy' = readFromRT(policy_buffer)
    /\ policy_buffer' = afterRead(policy_buffer)
    /\ misread' = NoteRead(misread, "policy_buffer", policy_buffer,
                            lastWrite["policy_buffer"])
    /\ lastWrite' = NoteClear(lastWrite, "policy_buffer")
    /\ afterStop' = OnPolicyRead(afterStop, readFromRT(policy_buffer))
    /\ state_cur' = None
    /\ cpc' = "c_time"
    /\ UNCHANGED <<receding_horizon, simulation, replan_dt, planner_ready,
                   latency, update_lock, plan_state_buffer,
                   control_state_buffer, path_buffer, ref_path, mainpc, now>>
    /\ UNCHANGED <<t_act, u_queue, prev_u, prev_state, dt, servo_msg,
                   published>>
    /\ UNCHANGED <<planVars, cfgpc, planActive, stopInFlight>>

\* lines 347-350: in simulation t_act is the clock; otherwise take update_lock
ControlTime ==
    /\ UNCHANGED <<bpVars, planFnVars, fnVars, obsVars>>
    /\ cpc = "c_time"
    /\ IF simulation
       THEN /\ t_act' = now
            /\ cpc' = "c_body"
            /\ update_lock' = update_lock
       ELSE /\ update_lock = "free"
            /\ update_lock' = "control"
            /\ cpc' = "c_locked"
            /\ t_act' = t_act
    /\ UNCHANGED <<receding_horizon, simulation, replan_dt, planner_ready,
                   latency, plan_state_buffer, control_state_buffer,
                   policy_buffer, path_buffer, ref_path, mainpc, now>>
    /\ UNCHANGED <<policy, state_cur, u_queue, prev_u, prev_state, dt, ticks,
                   servo_msg, published>>
    /\ UNCHANGED <<planVars, auxVars>>

\* lines 351-352: t_act = now + latency, release update_lock
ControlLatency ==
    /\ UNCHANGED <<bpVars, planFnVars, fnVars, obsVars>>
    /\ cpc = "c_locked"
    /\ t_act' = now + latency
    /\ update_lock' = "free"
    /\ cpc' = "c_body"
    /\ UNCHANGED <<receding_horizon, simulation, replan_dt, planner_ready,
                   latency, plan_state_buffer, control_state_buffer,
                   policy_buffer, path_buffer, ref_path, mainpc, now>>
    /\ UNCHANGED <<policy, state_cur, u_queue, prev_u, prev_state, dt, ticks,
                   servo_msg, published>>
    /\ UNCHANGED <<planVars, auxVars>>

\* lines 355-397: the state the command is computed for
\*   new sample: purge and replay u_queue from the sample's stamp to t_act
\*   no sample:  one step from prev_state, if there is one
Predict ==
    IF control_state_buffer.new_data_available
    THEN LET odom == Val(readFromRT(control_state_buffer))
             pg == Purge(u_queue, odom.stamp, Command(0, 0, odom.stamp))
             rp == Replay(pg.queue, [t |-> odom.stamp, steer |-> pg.u.steer],
                          pg.u, dt)
         IN [fresh |-> TRUE, queue |-> pg.queue, dt |-> rp.dt,
             state |-> Some(dyn_step(rp.state, rp.u, t_act - rp.u.t))]
    ELSE IF ~IsNone(prev_state)
    THEN [fresh |-> FALSE, queue |-> u_queue, dt |-> Some(t_act - prev_u.t),
          state |-> Some(dyn_step(Val(prev_state), prev_u, t_act - prev_u.t))]
    ELSE [fresh |-> FALSE, queue |-> u_queue, dt |-> dt, state |-> None]

\* lines 400-413: what the policy read at line 344 gives for this tick
\*   "none"      no policy
\*   "entry"     a policy entry: feedback command
\*   "past"      state_ref is None: the channel is reset
\*   "crashed"   an uncaught exception ends the thread
Query(pr) ==
    IF IsNone(policy) THEN "none"
    ELSE IF ~receding_horizon
         THEN (IF get_policy_by_state(Val(policy), pr.state) = "TypeError"
               THEN "crashed"
               ELSE IF IsNone(pr.dt) THEN "crashed" ELSE "entry")
         ELSE (IF IsNone(get_policy(Val(policy), t_act)) THEN "past"
               ELSE IF IsNone(pr.state) \/ IsNone(pr.dt) THEN "crashed"
               ELSE "entry")

\* lines 355-435: predict, compute the command, publish it, record it
ControlBody ==
    /\ UNCHANGED <<bpVars, planFnVars, fnVars, obsVars>>
    /\ cpc = "c_body"
    /\ \E steer_rate \in SteerRates :
       LET pr == Predict
           q == Query(pr)
           accel == IF q = "entry" THEN 0 ELSE DefaultAccel
           steer == IF q = "entry"
                    THEN clip_steer(prev_u.steer + steer_rate * Val(pr.dt))
                    ELSE DefaultSteer
           u_record == Command(accel, steer, t_act)
       IN
       /\ control_state_buffer' =
             IF pr.fresh THEN afterRead(control_state_buffer)
             ELSE control_state_buffer
       /\ plan_state_buffer' =
             IF pr.fresh
             THEN writeFromNonRT(plan_state_buffer, [state |-> Val(pr.state), t |-> t_act])
             ELSE plan_state_buffer
       /\ misread' =
             IF pr.fresh
             THEN NoteRead(misread, "control_state_buffer", control_state_buffer,
                           lastWrite["control_state_buffer"])
             ELSE misread
       /\ lastWrite' =
             LET lw1 == IF pr.fresh
                        THEN NoteWrite(NoteClear(lastWrite, "control_state_buffer"),
                                       "plan_state_buffer",
                                       [state |-> Val(pr.state), t |-> t_act])
                        ELSE lastWrite
             IN IF q = "past" THEN NoteClear(lw1, "policy_buffer") ELSE lw1
       /\ policy_buffer' = IF q = "past" THEN reset(policy_buffer) ELSE policy_buffer
       /\ dt' = pr.dt
       /\ state_cur' = pr.state
       /\ IF q = "crashed"
          THEN /\ cpc' = "crashed"
               /\ u_queue' = pr.queue
               /\ UNCHANGED <<prev_u, prev_state, servo_msg, published>>
          ELSE /\ cpc' = "c_read"
               /\ servo_msg' = Some([throttle |-> accel, steer |-> steer,
                                     pwm |-> (~simulation /\ ~IsNone(pr.state)),
                                     source |-> q])
               /\ published' = published + 1
               /\ u_queue' = Append(pr.queue, u_record)
               /\ prev_u' = u_record
               /\ prev_state' = pr.state
    /\ UNCHANGED <<receding_horizon, simulation, replan_dt, planner_ready,
                   latency, update_lock, path_buffer, ref_path, mainpc, now>>
    /\ UNCHANGED <<policy, t_act, ticks>>
    /\ UNCHANGED <<planVars, cfgpc, planActive, afterStop, stopInFlight>>

\* ---------------------------------------------------- policy_planning_thread
MaxPlanSteps == 2

\* lines 448-457: a new path and planner_ready: take the path, clear an
\* existing policy
PolicyBegin ==
    /\ UNCHANGED <<bpVars, planFnVars, fnVars, obsVars>>
    /\ ppc = "p_wait"
    /\ path_buffer.new_data_available /\ planner_ready
    /\ ref_path' = readFromRT(path_buffer)
    /\ path_buffer' = afterRead(path_buffer)
    /\ policy_buffer' = IF IsNone(readFromRT(policy_buffer))
                        THEN afterRead(policy_buffer)
                        ELSE reset(policy_buffer)
    /\ misread' = NoteRead(NoteRead(misread, "path_buffer", path_buffer,
                                     lastWrite["path_buffer"]),
                            "policy_buffer", policy_buffer,
                            lastWrite["policy_buffer"])
    /\ lastWrite' = NoteClear(NoteClear(lastWrite, "path_buffer"), "policy_buffer")
    /\ afterStop' = OnPolicyRead(afterStop, readFromRT(policy_buffer))
    /\ ppc' = "p_state"
    /\ UNCHANGED <<receding_horizon, simulation, replan_dt, planner_ready,
                   latency, update_lock, plan_state_buffer,
                   control_state_buffer, mainpc, now>>
    /\ UNCHANGED <<ctlVars, pstate, rpc, index, t_last_replan, current_state,
                   initial_controls>>
    /\ UNCHANGED <<cfgpc, planActive, stopInFlight>>

\* line 460: state = plan_state_buffer.readFromRT()[:-1]; None has no slice
PolicyState ==
    /\ UNCHANGED <<bpVars, planFnVars, fnVars, obsVars>>
    /\ ppc = "p_state"
    /\ plan_state_buffer' = afterRead(plan_state_buffer)
    /\ misread' = NoteRead(misread, "plan_state_buffer", plan_state_buffer,
                            lastWrite["plan_state_buffer"])
    /\ lastWrite' = NoteClear(lastWrite, "plan_state_buffer")
    /\ IF IsNone(readFromRT(plan_state_buffer))
       THEN ppc' = "crashed" /\ pstate' = pstate
       ELSE /\ ppc' = "p_call"
            /\ pstate' = [state |-> Some(Val(readFromRT(plan_state_buffer)).state),
                          n |-> 0]
    /\ UNCHANGED <<receding_horizon, simulation, replan_dt, planner_ready,
                   latency, update_lock, control_state_buffer, policy_buffer,
                   path_buffer, ref_path, mainpc, now>>
    /\ UNCHANGED <<ctlVars, rpc, index, t_last_replan, current_state,
                   initial_controls>>
    /\ UNCHANGED <<cfgpc, planActive, afterStop, stopInFlight>>

\* line 472: self.planner.plan(state, None, verbose=False) is called
PolicyCall ==
    /\ UNCHANGED <<bpVars, planFnVars, fnVars, obsVars>>
    /\ ppc = "p_call"
    /\ ppc' = "p_ret"
    /\ planActive' = planActive + 1
    /\ UNCHANGED <<nodeVars, ctlVars>>
    /\ UNCHANGED <<pstate, rpc, index, t_last_replan, current_state,
                   initial_controls>>
    /\ UNCHANGED <<cfgpc, afterStop, stopInFlight, lastWrite, misread>>

\* lines 472-498: the call ends.  An exception, or a result without
\* 'controls' or with K_closed_loop = None, ends the thread.  Otherwise the
\* step is appended and, when the progress stops increasing, the policy of the
\* n collected steps is written.
PolicyReturn ==
    /\ UNCHANGED <<bpVars, planFnVars, fnVars, static_obstacle_dict, obstacle_list>>
    /\ obsDuringCall' = FALSE
    /\ ppc = "p_ret"
    /\ planActive' = planActive - 1
    /\ \E Jsmall \in BOOLEAN, more \in BOOLEAN :
         LET r == call_plan({"verbose"}, ref_path, Jsmall)
             ok == r.kind = "return" /\ r.keys /\ ~IsNone(r.K_closed_loop)
             n == pstate.n + 1
             new_policy == Policy(now, PlannerDt, n)
         IN
         IF ~ok
         THEN /\ ppc' = "crashed"
              /\ UNCHANGED <<pstate, policy_buffer, lastWrite>>
         ELSE IF more /\ n < MaxPlanSteps
         THEN /\ ppc' = "p_call"
              /\ pstate' = [pstate EXCEPT !.n = n]
              /\ UNCHANGED <<policy_buffer, lastWrite>>
         ELSE /\ ppc' = "p_wait"
              /\ pstate' = [pstate EXCEPT !.n = n]
              /\ policy_buffer' = writeFromNonRT(policy_buffer, new_policy)
              /\ lastWrite' = NoteWrite(lastWrite, "policy_buffer", new_policy)
    /\ UNCHANGED <<receding_horizon, simulation, replan_dt, planner_ready,
                   latency, update_lock, plan_state_buffer,
                   control_state_buffer, path_buffer, ref_path, mainpc, now>>
    /\ UNCHANGED <<ctlVars, rpc, index, t_last_replan, current_state,
                   initial_controls>>
    /\ UNCHANGED <<cfgpc, afterStop, stopInFlight, misread>>

\* ------------------------------------------ receding_horizon_planning_thread
\* line 545: the replanning condition
NeedReplan ==
    /\ plan_state_buffer.new_data_available
    /\ t_last_replan > replan_dt
    /\ planner_ready

\* line 602: no replanning in this iteration
RecedingIdle ==
    /\ UNCHANGED <<bpVars, planFnVars, fnVars, obsVars>>
    /\ rpc = "r_loop"
    /\ ~NeedReplan
    /\ t_last_replan <= replan_dt
    /\ t_last_replan' = t_last_replan + 1
    /\ UNCHANGED <<nodeVars, ctlVars>>
    /\ UNCHANGED <<ppc, pstate, rpc, index, current_state, initial_controls>>
    /\ UNCHANGED auxVars

\* line 565: the sample's position lies in the box of goal_path[index]
InGoalBox(odom, i) == odom.pos = i + 1

\* a thread that takes every index + 1 for a leg
next_leg_assumed(i) == TRUE
\* line 569: self.total_path[index+1]; past the last leg it raises IndexError,
\* which the except of line 572 swallows before anything is written
next_leg_exists(i) == i + 1 < NumGoals

\* lines 547-580: read the state, the previous policy and the sample; when the
\* vehicle is in the current goal box write the next leg (an IndexError past
\* the last leg is swallowed); take a new path if there is one
RecedingPrepare ==
    /\ UNCHANGED <<bpVars, planFnVars, fnVars, obsVars>>
    /\ rpc = "r_loop"
    /\ NeedReplan
    /\ LET prev_policy == readFromRT(policy_buffer)
           odom_msg == Val(readFromRT(control_state_buffer))
           advance == InGoalBox(odom_msg, index) /\ next_leg_exists(index)
           pb == IF advance THEN writeFromNonRT(path_buffer, index + 1)
                 ELSE path_buffer
           lw0 == NoteClear(NoteClear(NoteClear(lastWrite, "plan_state_buffer"),
                                      "policy_buffer"), "control_state_buffer")
           lw1 == IF advance THEN NoteWrite(lw0, "path_buffer", index + 1) ELSE lw0
       IN
       /\ current_state' = Some(Val(readFromRT(plan_state_buffer)).state)
       /\ plan_state_buffer' = afterRead(plan_state_buffer)
       /\ policy_buffer' = afterRead(policy_buffer)
       /\ initial_controls' = IF IsNone(prev_policy) THEN None
                              ELSE Some(t_last_replan)
       /\ control_state_buffer' = afterRead(control_state_buffer)
       /\ index' = IF advance THEN index + 1 ELSE index
       /\ path_buffer' = IF pb.new_data_available THEN afterRead(pb) ELSE pb
       /\ ref_path' = IF pb.new_data_available THEN readFromRT(pb) ELSE ref_path
       /\ misread' =
            LET m1 == NoteRead(misread, "plan_state_buffer", plan_state_buffer,
                               lastWrite["plan_state_buffer"])
                m2 == NoteRead(m1, "policy_buffer", policy_buffer,
                               lastWrite["policy_buffer"])
                m3 == NoteRead(m2, "control_state_buffer", control_state_buffer,
                               lastWrite["control_state_buffer"])
            IN NoteRead(m3, "path_buffer", pb, lw1["path_buffer"])
       /\ lastWrite' = IF pb.new_data_available THEN NoteClear(lw1, "path_buffer")
                       ELSE lw1
       /\ afterStop' = OnPolicyRead(afterStop, prev_policy)
    /\ rpc' = "r_call"
    /\ UNCHANGED <<receding_horizon, simulation, replan_dt, planner_ready,
                   latency, update_lock, mainpc, now>>
    /\ UNCHANGED <<ctlVars, ppc, pstate, t_last_replan>>
    /\ UNCHANGED <<cfgpc, planActive, stopInFlight>>

\* line 582: self.planner.plan(current_state, initial_controls, verbose=False)
RecedingCall ==
    /\ UNCHANGED <<bpVars, planFnVars, fnVars, obsVars>>
    /\ rpc = "r_call"
    /\ rpc' = "r_ret"
    /\ planActive' = planActive + 1
    /\ UNCHANGED <<nodeVars, ctlVars>>
    /\ UNCHANGED <<ppc, pstate, index, t_last_replan, current_state,
                   initial_controls>>
    /\ UNCHANGED <<cfgpc, afterStop, stopInFlight, lastWrite, misread>>

\* line 586: the replan counts as successful
ReplanSuccessful(r) == r.status = Some(0)

\* lines 582-600: the call ends.  An exception ends the thread; otherwise
\* t_last_replan is the clock and a successful replan is written as a policy
RecedingReturn ==
    /\ UNCHANGED <<bpVars, planFnVars, fnVars, static_obstacle_dict, obstacle_list>>
    /\ obsDuringCall' = FALSE
    /\ rpc = "r_ret"
    /\ planActive' = planActive - 1
    /\ \E Jsmall \in BOOLEAN :
         LET replan == call_plan({"verbose"}, ref_path, Jsmall)
             new_policy == Policy(now, PlannerDt, PlannerT)
         IN
         IF replan.kind # "return"
         THEN /\ rpc' = "crashed"
              /\ UNCHANGED <<t_last_replan, policy_buffer, lastWrite>>
         ELSE /\ rpc' = "r_loop"
              /\ t_last_replan' = now
              /\ IF ReplanSuccessful(replan)
                 THEN /\ policy_buffer' = writeFromNonRT(policy_buffer, new_policy)
                      /\ lastWrite' = NoteWrite(lastWrite, "policy_buffer", new_policy)
                 ELSE UNCHANGED <<policy_buffer, lastWrite>>
    /\ UNCHANGED <<receding_horizon, simulation, replan_dt, planner_ready,
                   latency, update_lock, plan_state_buffer,
                   control_state_buffer, path_buffer, ref_path, mainpc, now>>
    /\ UNCHANGED <<ctlVars, ppc, pstate, index, current_state, initial_controls>>
    /\ UNCHANGED <<cfgpc, afterStop, stopInFlight, misread>>

\* -------------------------------------------------------------------- Spec
Next ==
    \/ WarmUpCall \/ WarmUpReturn \/ StartNode
    \/ start_planning_cb \/ stop_planning_cb
    \/ reconfigure_acquire \/ reconfigure_callback
    \/ odometry_callback \/ Tick
    \/ ControlRead \/ ControlTime \/ ControlLatency \/ ControlBody
    \/ PolicyBegin \/ PolicyState \/ PolicyCall \/ PolicyReturn
    \/ RecedingIdle \/ RecedingPrepare \/ RecedingCall \/ RecedingReturn
    \/ obstacle_callback

Spec == Init /\ [][Next]_vars

\* The node without live reconfiguration: latency and update_lock, all that
\* reconfigure_callback touches, are read by the control thread's time stamp
\* alone and by no planning thread and no channel.
NextPlanning ==
    \/ WarmUpCall \/ WarmUpReturn \/ StartNode
    \/ start_planning_cb \/ stop_planning_cb
    \/ odometry_callback \/ Tick
    \/ ControlRead \/ ControlTime \/ ControlLatency \/ ControlBody
    \/ PolicyBegin \/ PolicyState \/ PolicyCall \/ PolicyReturn
    \/ RecedingIdle \/ RecedingPrepare \/ RecedingCall \/ RecedingReturn

SpecPlanning == Init /\ [][NextPlanning]_vars

\* The node without the Start/Stop services, under fair scheduling of the
\* control thread and of a reconfigure_callback that holds update_lock: a
\* started tick goes on and the lock holder releases.  Nothing is assumed
\* about the planning thread: it may stay inside a call of plan forever.
NextControl ==
    \/ WarmUpCall \/ WarmUpReturn \/ StartNode
    \/ reconfigure_acquire \/ reconfigure_callback
    \/ odometry_callback \/ Tick
    \/ ControlRead \/ ControlTime \/ ControlLatency \/ ControlBody
    \/ PolicyBegin \/ PolicyState \/ PolicyCall \/ PolicyReturn
    \/ RecedingIdle \/ RecedingPrepare \/ RecedingCall \/ RecedingReturn

FairControl ==
    /\ Init /\ [][NextControl]_vars
    /\ WF_vars(ControlTime)
    /\ WF_vars(ControlLatency)
    /\ WF_vars(ControlBody)
    /\ WF_vars(reconfigure_callback)

PolicyWritten ==
    /\ policy_buffer'.new_data_available
    /\ ~IsNone(policy_buffer'.data)
    /\ policy_buffer' # policy_buffer

InTick == cpc \in {"c_time", "c_locked", "c_body"}

\* the command published last is computed from a policy entry or is the
\* default command
CommandDefined ==
    /\ ~IsNone(servo_msg)
    /\ \/ Val(servo_msg).source = "entry"
       \/ /\ Val(servo_msg).throttle = DefaultAccel
          /\ Val(servo_msg).steer = DefaultSteer

\* the tick has run to completion: one command published per tick
TickDone == cpc = "c_read" /\ published = ticks /\ CommandDefined

\* C3: under fair scheduling every control tick that starts runs to
\* completion and publishes one command, which comes from the policy read in
\* that tick or is the default, whether or not a call of plan is in progress.
TickAlwaysCompletes == InTick ~> TickDone

\* a tick is under way while a planning thread is inside its call of plan
TickDuringPlan == InTick /\ planActive = 1 /\ (ppc = "p_ret" \/ rpc = "r_ret")

OnePlanAtATime == planActive <= 1

\* a planning thread is inside its call of plan
ThreadPlanInProgress ==
    planActive = 1 /\ mainpc = "running" /\ (ppc = "p_ret" \/ rpc = "r_ret")

\* ------------------------------------------------------ ILQR.backward_pass
\* backward_pass(trajectory, controls, path_refs, obs_refs, alpha, b, lam) as
\* a function of its arguments.  The arguments are reduced to what decides
\* the control flow:
\*   T        self.T
\*   cols     the columns of the derivative arrays q and Q (T or T + 1: the
\*            cost module is not among the sources at hand)
\*   dim_x    the state dimension of the arrays (dim_u is 2)
\*   matrix   lam is an array, so that lam @ identity is defined
\*   alpha    lam = alpha*lam raises lam by a level ("up", alpha > 1), keeps
\*            it ("same", alpha = 1) or lowers it by a level ("down")
\*   lam0     the level of lam at the call, between reg_min and reg_max:
\*            level 0 lies below reg_min, the levels RegMin .. RegMax are
\*            the range [reg_min, reg_max], level MaxLam lies above reg_max
\*   block    for each level of lam, what Quu_reg is with that lam:
\*            "pd" (all eigenvalues > 0), "indefinite" (some eigenvalue <= 0,
\*            invertible) or "singular"
\* P is assigned only at line 186, which is never reached, so Quu_reg at
\* t = T-1 depends on lam alone.
MaxT == 2
MaxLam == 3
RegMin == 1
RegMax == MaxLam - 1
BlockKinds == {"pd", "indefinite", "singular"}
LamLevels == 0 .. MaxLam
BPInputs ==
    [T : 0 .. MaxT, cols : 0 .. MaxT + 1, dim_x : {2, 5}, matrix : BOOLEAN,
     alpha : {"up", "same", "down"},
     lam0 : RegMin .. RegMax, block : [LamLevels -> BlockKinds]]

\* line 173: the test that guards "step 8: update lam"
eigvals_all_positive(kind) == kind = "pd"

\* the branch at line 173 is taken when the test succeeds
scale_lam(kind) == eigvals_all_positive(kind)

\* lam = alpha*lam
Scaled(in, l) ==
    IF in.alpha = "up" THEN l + 1 ELSE IF in.alpha = "same" THEN l ELSE l - 1

InitBP ==
    /\ receding_horizon = FALSE
    /\ simulation = TRUE
    /\ replan_dt = 1
    /\ planner_ready = TRUE
    /\ latency = 0
    /\ update_lock = "free"
    /\ plan_state_buffer = EmptyBuffer
    /\ control_state_buffer = EmptyBuffer
    /\ policy_buffer = EmptyBuffer
    /\ path_buffer = EmptyBuffer
    /\ ref_path = None
    /\ mainpc = "off"
    /\ now = 0
    /\ cpc = "off"
    /\ policy = None
    /\ t_act = 0
    /\ state_cur = None
    /\ u_queue = <<>>
    /\ prev_u = [accel |-> 0, steer |-> 0, t |-> 0]
    /\ prev_state = None
    /\ dt = None
    /\ ticks = 0
    /\ servo_msg = None
    /\ published = 0
    /\ ppc = "off"
    /\ pstate = [state |-> None, n |-> 0]
    /\ rpc = "off"
    /\ index = 0
    /\ t_last_replan = 0
    /\ current_state = None
    /\ initial_controls = None
    /\ cfgpc = [latency |-> None, calls |-> 0]
    /\ planActive = 0
    /\ afterStop = "idle"
    /\ stopInFlight = FALSE
    /\ lastWrite = [c \in Channels |-> None]
    /\ misread = {}
    /\ \E in \in BPInputs :
         /\ in.cols \in {in.T, in.T + 1}
         /\ bp_in = Some(in)
    /\ bpc = "start"
    /\ bp_t = 0
    /\ lam = 0
    /\ Kt = None
    /\ plan_in = None
    /\ plan_out = None
    /\ cc_in = None /\ cc_out = None
    /\ fp_in = None /\ fp_out = None
    /\ static_obstacle_dict = EmptyDict
    /\ obstacle_list = <<>>
    /\ obsDuringCall = FALSE

notBP == <<nodeVars, ctlVars, planVars, auxVars, planFnVars, fnVars, obsVars>>

\* lines 143-150: derivatives, p = q[:, T] and P = Q[:, :, T], t = T - 1;
\* arrays of T columns have no column T
BPStart ==
    /\ bpc = "start"
    /\ bp_t' = Val(bp_in).T - 1
    /\ lam' = Val(bp_in).lam0
    /\ bpc' = IF Val(bp_in).cols > Val(bp_in).T THEN "while" ELSE "IndexError"
    /\ UNCHANGED <<bp_in, Kt>>
    /\ UNCHANGED notBP

\* line 152: while t >= 0; line 190 returns Kt, which is unbound when the
\* loop body has not assigned it
BPWhile ==
    /\ bpc = "while"
    /\ bpc' = IF bp_t >= 0 THEN "hessian"
              ELSE IF IsNone(Kt) THEN "UnboundLocalError" ELSE "returned"
    /\ UNCHANGED <<bp_in, bp_t, lam, Kt>>
    /\ UNCHANGED notBP

\* lines 153-170: Quu_reg = Rt + Bt'(P + lam @ I)Bt; a scalar lam has no @
BPHessian ==
    /\ bpc = "hessian"
    /\ bpc' = IF Val(bp_in).matrix THEN "test" ELSE "ValueError"
    /\ UNCHANGED <<bp_in, bp_t, lam, Kt>>
    /\ UNCHANGED notBP

\* lines 173-176: when the branch is taken lam is scaled and the recursion
\* starts again at t = T - 1 (p and P are not assigned); otherwise the gains
\* are computed from this block.  A lam outside the levels of the model ends
\* the run at "beyond".
BPTest ==
    /\ bpc = "test"
    /\ IF scale_lam(Val(bp_in).block[lam])
       THEN IF Scaled(Val(bp_in), lam) \in LamLevels
            THEN /\ lam' = Scaled(Val(bp_in), lam)
                 /\ bp_t' = Val(bp_in).T - 1
                 /\ bpc' = "while"
            ELSE /\ bpc' = "beyond"
                 /\ UNCHANGED <<bp_t, lam>>
       ELSE /\ bpc' = "gain"
            /\ UNCHANGED <<bp_t, lam>>
    /\ UNCHANGED <<bp_in, Kt>>
    /\ UNCHANGED notBP

\* line 179: Kt = -inv(Quu_reg) @ Qux_reg; a singular block has no inverse
BPGain ==
    /\ bpc = "gain"
    /\ IF Val(bp_in).block[lam] = "singular"
       THEN bpc' = "LinAlgError" /\ Kt' = Kt
       ELSE /\ bpc' = "gain_k"
            /\ Kt' = Some([t |-> bp_t, lam |-> lam,
                           block |-> Val(bp_in).block[lam]])
    /\ UNCHANGED <<bp_in, bp_t, lam>>
    /\ UNCHANGED notBP

\* lines 180-182: kt = -inv(Qux_reg) @ Qut needs the 2 x dim_x block Qux_reg
\* square and invertible; with dim_x = 2 the 2 x 2 Kt does not fit
\* K_closed_loop[:, :, t], which is 2 x 4
BPGainK ==
    /\ bpc = "gain_k"
    /\ \E invertible \in BOOLEAN :
         bpc' = IF Val(bp_in).dim_x # 2 \/ ~invertible THEN "LinAlgError"
                ELSE "ValueError"
    /\ UNCHANGED <<bp_in, bp_t, lam, Kt>>
    /\ UNCHANGED notBP

NextBP == BPStart \/ BPWhile \/ BPHessian \/ BPTest \/ BPGain \/ BPGainK

SpecBP == InitBP /\ [][NextBP]_vars

\* backward_pass runs on: a call that can take a step takes it
FairBP == InitBP /\ [][NextBP]_vars /\ WF_vars(NextBP)

\* C9: every block Quu_reg from which the backward pass computes and keeps a
\* gain is positive definite; no gain comes from a block that failed the test.
GainsOnlyFromPositiveDefinite ==
    ~IsNone(Kt) => eigvals_all_positive(Val(Kt).block)

\* C10: when Quu_reg fails the positive-definiteness test the pass is
\* abandoned: lam is scaled up, the recursion starts again at the terminal
\* step and no gain of the abandoned pass is kept.
FailedTestRestarts ==
    [][(bpc = "test" /\ ~eigvals_all_positive(Val(bp_in).block[lam]))
         => /\ bpc' = "while"
            /\ lam' > lam
            /\ bp_t' = Val(bp_in).T - 1
            /\ IsNone(Kt')]_vars

\* --------------------------------------------------------------- ILQR.plan
\* plan called on its own, for any reference path (or none), any keyword
\* arguments and any initial state.
\* the ILQR fields after plan: plan assigns none of them
\* a plan that clears the obstacles it was given
planner_clears_obstacles(self) == [self EXCEPT !.obstacle_list = <<>>]
\* the planner's fields after plan, from those before: plan assigns none
planner_after_plan(self) == self
\* the obstacle lists the planner can hold when plan is called
ObstacleLists == {<<>>, <<WarmUpObstacle>>} \cup {<<v>> : v \in Vertices}

RefPaths == {None} \cup {Some(r) : r \in WarmUpPath .. NumGoals - 1}
PlanInputs ==
    [kwargs : SUBSET {"controls", "verbose"}, Jsmall : BOOLEAN,
     init_state : Positions]

InitPlan ==
    /\ receding_horizon = FALSE
    /\ simulation = TRUE
    /\ replan_dt = 1
    /\ planner_ready = TRUE
    /\ latency = 0
    /\ update_lock = "free"
    /\ plan_state_buffer = EmptyBuffer
    /\ control_state_buffer = EmptyBuffer
    /\ policy_buffer = EmptyBuffer
    /\ path_buffer = EmptyBuffer
    /\ ref_path \in RefPaths
    /\ mainpc = "off"
    /\ now = 0
    /\ cpc = "off"
    /\ policy = None
    /\ t_act = 0
    /\ state_cur = None
    /\ u_queue = <<>>
    /\ prev_u = [accel |-> 0, steer |-> 0, t |-> 0]
    /\ prev_state = None
    /\ dt = None
    /\ ticks = 0
    /\ servo_msg = None
    /\ published = 0
    /\ ppc = "off"
    /\ pstate = [state |-> None, n |-> 0]
    /\ rpc = "off"
    /\ index = 0
    /\ t_last_replan = 0
    /\ current_state = None
    /\ initial_controls = None
    /\ cfgpc = [latency |-> None, calls |-> 0]
    /\ planActive = 0
    /\ afterStop = "idle"
    /\ stopInFlight = FALSE
    /\ lastWrite = [c \in Channels |-> None]
    /\ misread = {}
    /\ bp_in = None
    /\ bpc = "off"
    /\ bp_t = 0
    /\ lam = 0
    /\ Kt = None
    /\ \E in \in PlanInputs : plan_in = Some(in)
    /\ plan_out = None
    /\ cc_in = None /\ cc_out = None
    /\ fp_in = None /\ fp_out = None
    /\ static_obstacle_dict = EmptyDict
    /\ obstacle_list \in ObstacleLists
    /\ obsDuringCall = FALSE

\* plan(init_state, **kwargs) runs from call to return or raise
PlanFn ==
    /\ IsNone(plan_out)
    /\ LET in == Val(plan_in) IN
       /\ plan_out' = Some([result |-> call_plan(in.kwargs, ref_path, in.Jsmall),
                            ref_before |-> ref_path,
                            obstacles_before |-> obstacle_list])
       /\ LET self == [ref_path |-> ref_path, obstacle_list |-> obstacle_list]
              after == planner_after_plan(self)
          IN /\ ref_path' = after.ref_path
             /\ obstacle_list' = after.obstacle_list
       /\ UNCHANGED <<static_obstacle_dict, obsDuringCall>>
    /\ UNCHANGED <<receding_horizon, simulation, replan_dt, planner_ready,
                   latency, update_lock, plan_state_buffer,
                   control_state_buffer, policy_buffer, path_buffer, mainpc,
                   now>>
    /\ UNCHANGED <<ctlVars, planVars, auxVars, bpVars, plan_in, fnVars>>

NextPlanFn == PlanFn

SpecPlanFn == InitPlan /\ [][NextPlanFn]_vars

\* plan has returned a result
PlanReturned == ~IsNone(plan_out) /\ Val(plan_out).result.kind = "return"

\* the values of status_lookup: 0 Iteration Limit Exceed, 1 Converged,
\* 2 Failed Line Search
StatusValues == {Some(i) : i \in 0 .. 2}

\* C13: every call of plan with a reference path set ends and returns one
\* of the statuses Converged, IterationLimitExceeded, LineSearchFailed.
PlanReturnsOneStatus ==
    (~IsNone(plan_out) /\ ~IsNone(Val(plan_out).ref_before)
       /\ Val(plan_in).kwargs \subseteq PlanParameters)
      => (PlanReturned /\ Val(plan_out).result.status \in StatusValues)

\* backward_pass has ended: it has returned or raised, or lam has left the
\* levels of the model
BPEnded == bpc \notin {"start", "while", "hessian", "test", "gain", "gain_k"}

\* C11: the retry loop of the backward pass is bounded: for every input
\* backward_pass ends after finitely many restarts.
BackwardPassTerminates == <>BPEnded

\* C12: lam stays within [reg_min, reg_max] over any sequence of scalings,
\* starting from a value in that range.
LamWithinRange == bpc # "start" => lam \in RegMin .. RegMax

\* C16: every call of ILQR.plan by a planning thread returns a result with a
\* status; no outcome of the optimizer ends the thread with an exception.
ThreadPlanCallsReturn ==
    [][/\ (ppc = "p_ret" /\ ppc' # "p_ret") => ppc' # "crashed"
       /\ (rpc = "r_ret" /\ rpc' # "r_ret") => rpc' # "crashed"]_vars

\* C17: plan called while no reference path is set returns status -1 and
\* leaves ref_path and obstacle_list as they were before the call.
NoPathPlanFailsCleanly ==
    (~IsNone(plan_out) /\ IsNone(Val(plan_out).ref_before)
       /\ Val(plan_in).kwargs \subseteq PlanParameters)
      => /\ PlanReturned
         /\ Val(plan_out).result.status = Some(0 - 1)
         /\ ref_path = Val(plan_out).ref_before
         /\ obstacle_list = Val(plan_out).obstacles_before

\* plan was called without a reference path and with obstacles set
NoPathPlanCalled ==
    /\ ~IsNone(plan_out) /\ IsNone(Val(plan_out).ref_before)
    /\ Val(plan_in).kwargs \subseteq PlanParameters
    /\ Val(plan_out).obstacles_before # <<>>

\* a plan call is in progress before and after the step
PlanCallGoesOn ==
    \/ mainpc = "warming" /\ mainpc' = "warming"
    \/ ppc = "p_ret" /\ ppc' = "p_ret"
    \/ rpc = "r_ret" /\ rpc' = "r_ret"

\* C19: between the start and the return of a plan call no other thread or
\* callback changes the planner's ref_path or obstacle_list.
SnapshotStableDuringPlan ==
    [][PlanCallGoesOn => (ref_path' = ref_path /\ obstacle_list' = obstacle_list)]_vars

\* an obstacle message was stored while a thread's plan call is in progress
ObstacleStoredDuringPlan ==
    /\ ppc = "p_ret" \/ rpc = "r_ret"
    /\ obsDuringCall
    /\ static_obstacle_dict # EmptyDict

\* a planning thread's plan call starts
PlanCallStarts ==
    \/ ppc = "p_call" /\ ppc' = "p_ret"
    \/ rpc = "r_call" /\ rpc' = "r_ret"

\* C20: an optimizer call that starts after obstacle_callback stored vertices
\* for an id runs with an obstacle_list holding the latest vertices of that id.
ObstaclesReachOptimizer ==
    [][PlanCallStarts =>
         \A id \in ObstacleIds :
            ~IsNone(static_obstacle_dict[id]) =>
               \E i \in DOMAIN obstacle_list :
                  obstacle_list[i] = Val(static_obstacle_dict[id])]_vars

\* the exceptions that end backward_pass
BPExceptions == {"IndexError", "UnboundLocalError", "ValueError", "LinAlgError"}

\* arguments the backward pass is meant for: a horizon of at least one step,
\* derivative arrays with a terminal column, a matrix lam
ValidBPInput ==
    /\ ~IsNone(bp_in)
    /\ Val(bp_in).T >= 1
    /\ Val(bp_in).cols = Val(bp_in).T + 1
    /\ Val(bp_in).matrix

\* C22: for valid inputs the backward pass hands back its gains, one K_t and
\* one k_t for each t in 0 .. T-1; it does not end in an exception.
BackwardPassReturnsGains == ValidBPInput => bpc \notin BPExceptions

\* C23: self.latency is never negative, whatever values the live reconfigure
\* calls request.
LatencyNonNegative == latency >= 0

\* ------------------------------------------------ functions on their own
\* the node before its constructor has run, no call of backward_pass or plan
NodeAtRest ==
    /\ receding_horizon = FALSE
    /\ simulation = TRUE
    /\ replan_dt = 1
    /\ planner_ready = TRUE
    /\ latency = 0
    /\ update_lock = "free"
    /\ plan_state_buffer = EmptyBuffer
    /\ control_state_buffer = EmptyBuffer
    /\ policy_buffer = EmptyBuffer
    /\ path_buffer = EmptyBuffer
    /\ ref_path = None
    /\ mainpc = "off"
    /\ now = 0

ControlAtRest ==
    /\ cpc = "off"
    /\ policy = None
    /\ t_act = 0
    /\ state_cur = None
    /\ u_queue = <<>>
    /\ prev_u = [accel |-> 0, steer |-> 0, t |-> 0]
    /\ prev_state = None
    /\ dt = None
    /\ ticks = 0
    /\ servo_msg = None
    /\ published = 0

ThreadsAtRest ==
    /\ ppc = "off"
    /\ pstate = [state |-> None, n |-> 0]
    /\ rpc = "off"
    /\ index = 0
    /\ t_last_replan = 0
    /\ current_state = None
    /\ initial_controls = None

AuxAtRest ==
    /\ cfgpc = [latency |-> None, calls |-> 0]
    /\ planActive = 0
    /\ afterStop = "idle"
    /\ stopInFlight = FALSE
    /\ lastWrite = [c \in Channels |-> None]
    /\ misread = {}

OptimizerAtRest ==
    /\ bp_in = None
    /\ bpc = "off"
    /\ bp_t = 0
    /\ lam = 0
    /\ Kt = None
    /\ plan_in = None
    /\ plan_out = None
    /\ static_obstacle_dict = EmptyDict
    /\ obstacle_list = <<>>
    /\ obsDuringCall = FALSE

AtRest ==
    /\ NodeAtRest /\ ControlAtRest /\ ThreadsAtRest /\ AuxAtRest
    /\ OptimizerAtRest

\* --------------------------------------------------------- compute_control
\* angles in steps of pi / HalfTurn: HalfTurn is pi, 2 * HalfTurn a full turn
HalfTurn == 4
Headings == (0 - HalfTurn) .. HalfTurn
Gains == {0 - 1, 0, 1}

\* line 305: dx[3] = np.mod(dx[3] + np.pi, 2 * np.pi) - np.pi; np.mod has the
\* sign of the divisor
wrap_heading(d) == ((d + HalfTurn) % (2 * HalfTurn)) - HalfTurn

\* x and x_ref by their headings, u_ref and K by the steering-rate entries
\* that meet the heading
ComputeControlInputs == [x : Headings, x_ref : Headings, u_ref : {0}, K : Gains]

InitCC ==
    /\ AtRest
    /\ \E in \in ComputeControlInputs : cc_in = Some(in)
    /\ cc_out = None
    /\ fp_in = None /\ fp_out = None

\* lines 304-308: dx = x - x_ref, the heading entry wrapped, u = u_ref + K @ dx
compute_control ==
    /\ ~IsNone(cc_in) /\ IsNone(cc_out)
    /\ LET in == Val(cc_in)
           dx == wrap_heading(in.x - in.x_ref)
       IN cc_out' = Some([dx |-> dx, steer_rate |-> in.u_ref + in.K * dx])
    /\ UNCHANGED <<nodeVars, ctlVars, planVars, auxVars, bpVars, planFnVars,
                   obsVars, cc_in, fp_in, fp_out>>

NextCC == compute_control

SpecCC == InitCC /\ [][NextCC]_vars

\* C24: the heading error that meets the gain is congruent to x[3] - x_ref[3]
\* modulo a full turn and lies in (-pi, pi]: greater than -pi, at most pi.
HeadingErrorWrapped ==
    ~IsNone(cc_out) =>
       LET raw == Val(cc_in).x - Val(cc_in).x_ref
           e == Val(cc_out).dx
       IN /\ (e - raw) % (2 * HalfTurn) = 0
          /\ e > 0 - HalfTurn
          /\ e <= HalfTurn

\* C25: every call of plan by a planning thread starts while planner_ready
\* is true; no optimizer call starts while the planner is stopped.
PlanStartsOnlyWhenReady == [][PlanCallStarts => planner_ready]_vars

\* the step takes a sample the control loop has not processed: it clears the
\* new-data flag of the control-state channel
SampleConsumed ==
    /\ control_state_buffer.new_data_available
    /\ ~control_state_buffer'.new_data_available

\* C26: the control loop is the only reader of the control-state channel; a
\* sample written by odometry_callback is consumed by no planning thread.
OnlyControlLoopReadsSensor ==
    [][SampleConsumed => (cpc = "c_body" /\ cpc' # "c_body")]_vars

\* ------------------------------------------------------- ILQR.forward_pass
\* numpy shapes are sequences of lengths.  An array of shape src can be
\* assigned to a slot of shape dst when, leading axes of length 1 dropped, it
\* has no more axes than dst and each axis, aligned at the right, has the
\* slot's length or length 1.
RECURSIVE drop_leading_ones(_)
drop_leading_ones(shape) ==
    IF shape # <<>> /\ Head(shape) = 1 THEN drop_leading_ones(Tail(shape))
    ELSE shape
broadcasts(src, dst) ==
    LET sh == drop_leading_ones(src) IN
    /\ Len(sh) <= Len(dst)
    /\ \A i \in 1 .. Len(sh) :
          sh[i] = 1 \/ sh[i] = dst[Len(dst) - Len(sh) + i]

\* the trajectory by its shape (dim_x, cols); alpha above or below rho; the
\* line search finds a lower cost or not
ForwardPassInputs ==
    [T : 1 .. MaxT, dim_x : {4, 5}, cols : 1 .. MaxT + 1,
     alpha : {"above_rho", "below_rho"}, epsilon : {"shrinks", "keeps"},
     improves : BOOLEAN]

\* lines 202-222.  Line 206 assigns trajectory[: 0], the first 0 rows, of
\* shape (0, cols), to the column trajectory_new[:, 0], of shape (dim_x,).
\* Past it: for t in range(T - 1) computes T - 1 controls, and the next state
\* is assigned to trajectory_new[: t+1], the first t + 1 rows.
forward_pass_result(in) ==
    IF ~broadcasts(<<0, in.cols>>, <<in.dim_x>>)
    THEN [kind |-> "ValueError", first_state_kept |-> FALSE, controls |-> 0,
          next_state_at |-> "nowhere"]
    ELSE IF in.alpha = "above_rho" /\ ~broadcasts(<<in.dim_x>>, <<1, in.cols>>)
    THEN [kind |-> "ValueError", first_state_kept |-> TRUE, controls |-> 1,
          next_state_at |-> "rows"]
    ELSE [kind |-> "return", first_state_kept |-> TRUE,
          controls |-> IF in.alpha = "above_rho" THEN in.T - 1 ELSE 0,
          next_state_at |-> "rows"]

InitFP ==
    /\ AtRest
    /\ cc_in = None /\ cc_out = None
    /\ \E in \in ForwardPassInputs :
         /\ in.cols \in {in.T, in.T + 1}
         /\ fp_in = Some(in)
    /\ fp_out = None

forward_pass ==
    /\ ~IsNone(fp_in) /\ IsNone(fp_out)
    /\ fp_out' = Some(forward_pass_result(Val(fp_in)))
    /\ UNCHANGED <<nodeVars, ctlVars, planVars, auxVars, bpVars, planFnVars,
                   obsVars, cc_in, cc_out, fp_in>>

NextFP == forward_pass

SpecFP == InitFP /\ [][NextFP]_vars

\* C27: for a candidate step size forward_pass rolls out the whole horizon
\* from the nominal initial state: the candidate's first state is the
\* nominal's, a control is computed for each t in 0 .. T-1 and each next
\* state is stored at column t+1.
ForwardPassSimulatesHorizon ==
    (~IsNone(fp_out) /\ Val(fp_in).alpha = "above_rho") =>
       /\ Val(fp_out).kind = "return"
       /\ Val(fp_out).first_state_kept
       /\ Val(fp_out).controls = Val(fp_in).T
       /\ Val(fp_out).next_state_at = "columns"

\* ------------------------------------------------- dead-reckoning intervals
\* the intervals dt the replay loop of lines 379-383 passes to dyn_step
RECURSIVE ReplayIntervals(_, _)
ReplayIntervals(q, u) ==
    IF q = <<>> THEN {}
    ELSE {Head(q).t - u.t} \cup ReplayIntervals(Tail(q), Head(q))

\* every interval this tick's prediction passes to dyn_step (lines 379-396)
DynStepIntervals ==
    IF control_state_buffer.new_data_available
    THEN LET odom == Val(readFromRT(control_state_buffer))
             pg == Purge(u_queue, odom.stamp, Command(0, 0, odom.stamp))
             rp == Replay(pg.queue, [t |-> odom.stamp, steer |-> pg.u.steer],
                          pg.u, dt)
         IN ReplayIntervals(pg.queue, pg.u) \cup {t_act - rp.u.t}
    ELSE IF ~IsNone(prev_state) THEN {t_act - prev_u.t}
    ELSE {}

\* the time stamps of the queued commands do not decrease
QueueInTimeOrder(q) ==
    \A i \in 1 .. Len(q) - 1 : q[i].t <= q[i + 1].t

\* C28: in the control loop's dead-reckoning time only moves forward: every
\* interval passed to dyn_step is >= 0 and the commands recorded in u_queue
\* carry non-decreasing time stamps.
TimeMovesForward ==
    [][(cpc = "c_body" /\ cpc' # "c_body")
         => /\ \A d \in DynStepIntervals : d >= 0
            /\ QueueInTimeOrder(u_queue')]_vars

\* ------------------------------------------------- the command of one tick
\* the policy a planning thread publishes
PublishedPolicy == Policy(0, PlannerDt, PlannerT)
SteerAngles == {0 - SteerLimit, 0, SteerLimit}

\* the control thread at line 355 of some tick, with or without a policy read
\* at line 344, after a first tick or not, with or without a new sample
InitCommand ==
    /\ ThreadsAtRest /\ AuxAtRest /\ OptimizerAtRest
    /\ cc_in = None /\ cc_out = None /\ fp_in = None /\ fp_out = None
    /\ receding_horizon \in BOOLEAN
    /\ simulation \in BOOLEAN
    /\ replan_dt = 1
    /\ planner_ready = TRUE
    /\ latency = 0
    /\ update_lock = "free"
    /\ plan_state_buffer = EmptyBuffer
    /\ now \in 0 .. MaxTime
    /\ control_state_buffer \in
          {EmptyBuffer, writeFromNonRT(EmptyBuffer, [stamp |-> 0, pos |-> 0])}
    /\ policy \in {None, Some(PublishedPolicy)}
    /\ policy_buffer = [data |-> policy, new_data_available |-> FALSE]
    /\ path_buffer = EmptyBuffer
    /\ ref_path = None
    /\ mainpc = "running"
    /\ cpc = "c_body"
    /\ t_act = now
    /\ state_cur = None
    /\ \E st \in SteerAngles, first \in BOOLEAN :
         IF first
         THEN /\ u_queue = <<>>
              /\ prev_u = Command(0, 0, 0)
              /\ prev_state = None
              /\ dt = None
              /\ st = 0
         ELSE /\ prev_u = Command(DefaultAccel, st, 0)
              /\ u_queue = <<prev_u>>
              /\ prev_state \in {None, Some([t |-> 0, steer |-> st])}
              /\ dt \in {None, Some(0), Some(1)}
    /\ ticks = 1
    /\ servo_msg = None
    /\ published = 0

NextCommand == ControlBody

SpecCommand == InitCommand /\ [][NextCommand]_vars

\* C29: every steering command the control loop produces lies within the
\* actuator limits: the clipped prev_steer + steer_rate * dt when a policy
\* entry is found, the default 0 otherwise.
SteerWithinLimits ==
    published > 0 =>
       /\ prev_u.steer \in (0 - SteerLimit) .. SteerLimit
       /\ Val(servo_msg).source # "entry" => prev_u.steer = DefaultSteer

\* a command computed from a policy entry, after a command with steering 0,
\* was clipped at the limit
SteerClippedAtLimit ==
    /\ published > 0
    /\ Val(servo_msg).source = "entry"
    /\ prev_u.steer = SteerLimit
    /\ Len(u_queue) = 2 /\ u_queue[1].steer = 0

\* ------------------------------------------------------ the mission legs
\* the receding-horizon thread at line 545 on any leg, replanning due, with
\* the vehicle at any position
InitLeg ==
    /\ ControlAtRest /\ AuxAtRest /\ OptimizerAtRest
    /\ cc_in = None /\ cc_out = None /\ fp_in = None /\ fp_out = None
    /\ receding_horizon = TRUE
    /\ simulation \in BOOLEAN
    /\ replan_dt = 1
    /\ planner_ready = TRUE
    /\ latency = 0
    /\ update_lock = "free"
    /\ now \in 0 .. MaxTime
    /\ \E p \in Positions, fresh \in BOOLEAN :
         LET odom == [stamp |-> 0, pos |-> p] IN
         /\ control_state_buffer = [data |-> Some(odom), new_data_available |-> fresh]
         /\ plan_state_buffer =
               writeFromNonRT(EmptyBuffer, [state |-> [t |-> 0, steer |-> 0], t |-> 0])
    /\ policy_buffer \in {EmptyBuffer, writeFromNonRT(EmptyBuffer, PublishedPolicy)}
    /\ index \in 0 .. NumGoals - 1
    /\ path_buffer = [data |-> Some(index), new_data_available |-> FALSE]
    /\ ref_path = Some(index)
    /\ mainpc = "running"
    /\ ppc = "off"
    /\ pstate = [state |-> None, n |-> 0]
    /\ rpc = "r_loop"
    /\ t_last_replan = replan_dt + 1
    /\ current_state = None
    /\ initial_controls = None

NextLeg == RecedingPrepare

SpecLeg == InitLeg /\ [][NextLeg]_vars

\* the vehicle is inside the goal box of the current leg
InsideGoalBox ==
    /\ ~IsNone(readFromRT(control_state_buffer))
    /\ InGoalBox(Val(readFromRT(control_state_buffer)), index)

\* C30: the leg index stays within 0 .. number of goals - 1; it grows by
\* exactly one, and only when the vehicle is inside the current goal box and
\* the next leg was written to the path channel; inside the goal box of the
\* last leg nothing is written and the index stays.
LegIndexInRange ==
    [][/\ index \in 0 .. NumGoals - 1
       /\ index' \in 0 .. NumGoals - 1
       /\ index' # index =>
             /\ index' = index + 1
             /\ InsideGoalBox
             /\ readFromRT(path_buffer') = Some(index')
       /\ (InsideGoalBox /\ index = NumGoals - 1 /\ rpc = "r_loop" /\ rpc' # "r_loop")
             => /\ index' = index
                /\ path_buffer' = path_buffer]_vars

\* the thread has passed the goal test inside the goal box of the last leg
LastLegGoalReached ==
    /\ rpc = "r_call"
    /\ index = NumGoals - 1
    /\ InsideGoalBox

====
